---- MODULE Spec2Model ----
(***************************************************************************)
(* fast-flow: the type registry (RegisterHelper), the serialization        *)
(* pipeline (BaseFlavor), the flow state hook (useFlow), the canvas        *)
(* (Flow) and its automatic layout (getLayoutedElements).                  *)
(***************************************************************************)
EXTENDS Integers, Sequences, FiniteSets, TLC

VARIABLES
    version,      \* BaseFlavor.version of the pipeline instance
    flavorIn,     \* the arguments the pipeline's caller holds
    flavorCall,   \* the last call made on the pipeline and its outcome
    nodes,        \* useFlow: the node collection
    edges,        \* useFlow: the edge collection
    sessionCall,  \* the last useFlow / canvas call: inputs, state before, outcome
    nodeTypes,    \* RegisterHelper.nodeTypes  (a Map: entries in insertion order)
    nodeConfigs,  \* RegisterHelper.nodeConfigs (a Map: entries in insertion order)
    registryCall, \* the last RegisterHelper / drop call: inputs and outcome
    footprints,   \* the DOM: the rendered size of each node element, by node id
    layoutCall,   \* the last auto layout: its direction and the nodes before it
    flow,         \* Flow: the mounted canvas (props, state, closures, memo)
    flowCall,     \* the last canvas event and the parent callbacks it called
    baseNode      \* BaseNode: the component instance of one node

vars == <<version, flavorIn, flavorCall, nodes, edges, sessionCall,
          nodeTypes, nodeConfigs, registryCall, footprints, layoutCall,
          flow, flowCall, baseNode>>

flavorVars   == <<version, flavorIn, flavorCall>>
sessionVars  == <<nodes, edges, sessionCall>>
registryVars == <<nodeTypes, nodeConfigs, registryCall>>
layoutVars   == <<footprints, layoutCall>>
canvasVars   == <<flow, flowCall, baseNode>>

(***************************************************************************)
(* JavaScript values.  Every value is a record whose field names tell its  *)
(* type, so that values of different types can be compared.  An object is  *)
(* a function from its own keys to values; an array is a sequence.         *)
(***************************************************************************)
Undefined == [undef |-> TRUE]
Str(s)    == [str |-> s]
Num(n)    == [num |-> n]
Bool(b)   == [bool |-> b]
Null      == [null |-> TRUE]
Pos(px, py) == [x |-> px, y |-> py]      \* the object {x, y}
Obj(f)    == [obj |-> f]                 \* an object held as a value
Arr(s)    == [arr |-> s]                 \* an array held as a value
EmptyObject == [k \in {} |-> Undefined]  \* {}

\* obj.key: undefined when the object has no such key
Get(o, key) == IF key \in DOMAIN o THEN o[key] ELSE Undefined
\* key in obj
HasKey(o, key) == key \in DOMAIN o
\* {...a, ...b}
Spread(a, b) ==
    [k \in (DOMAIN a) \cup (DOMAIN b) |-> IF k \in DOMAIN b THEN b[k] ELSE a[k]]
\* the values JavaScript treats as false in `v || d` and `!v`
Truthy(v) == v \notin {Undefined, Null, Str(""), Num(0), Bool(FALSE)}
IsArray(v) == DOMAIN v = {"arr"}
\* array.map(f)
RECURSIVE MapSeq(_, _)
MapSeq(F(_), s) == IF s = <<>> THEN <<>> ELSE <<F(Head(s))>> \o MapSeq(F, Tail(s))
\* all sequences over S of length at most n
SeqsUpTo(S, n) == UNION {[1..k -> S] : k \in 0..n}

(***************************************************************************)
(* BaseFlavor                                                              *)
(***************************************************************************)
DefaultVersion == "1.0.0"

standardFields ==
    {"id", "type", "position", "data", "width", "height", "selected", "dragging",
     "source", "target", "sourceHandle", "targetHandle", "animated", "style"}

extractCustomFields(o) == [k \in (DOMAIN o) \ standardFields |-> o[k]]

serializeNode_noType(node) ==
    Spread([id |-> Get(node, "id"), position |-> Get(node, "position"),
            data |-> Get(node, "data"), width |-> Get(node, "width"),
            height |-> Get(node, "height"), selected |-> Get(node, "selected"),
            dragging |-> Get(node, "dragging")],
           extractCustomFields(node))

serializeNode(node) ==
    Spread([id |-> Get(node, "id"), type |-> Get(node, "type"),
            position |-> Get(node, "position"), data |-> Get(node, "data"),
            width |-> Get(node, "width"), height |-> Get(node, "height"),
            selected |-> Get(node, "selected"), dragging |-> Get(node, "dragging")],
           extractCustomFields(node))

serializeNodes(ns) == MapSeq(serializeNode, ns)

serializeEdge(edge) ==
    Spread([id |-> Get(edge, "id"), source |-> Get(edge, "source"),
            target |-> Get(edge, "target"),
            sourceHandle |-> Get(edge, "sourceHandle"),
            targetHandle |-> Get(edge, "targetHandle"), type |-> Get(edge, "type"),
            animated |-> Get(edge, "animated"), style |-> Get(edge, "style"),
            data |-> Get(edge, "data")],
           extractCustomFields(edge))

serializeEdges(es) == MapSeq(serializeEdge, es)

\* the values whose properties cannot be read
Nullish(v) == v \in {Null, Undefined}

deserializeNode_standardOnly(node) ==
    [id |-> Get(node, "id"), type |-> Get(node, "type"),
     position |-> IF Truthy(Get(node, "position"))
                  THEN Get(node, "position") ELSE Pos(0, 0),
     data |-> IF Truthy(Get(node, "data"))
              THEN Get(node, "data") ELSE Obj(EmptyObject)]

deserializeNode(node) ==
    Spread(node,
           [position |-> IF Truthy(Get(node, "position"))
                         THEN Get(node, "position") ELSE Pos(0, 0),
            data |-> IF Truthy(Get(node, "data"))
                     THEN Get(node, "data") ELSE Obj(EmptyObject)])

deserializeNodes(ns) == MapSeq(deserializeNode, ns)

\* ({...null} is {})
deserializeEdge(edge) ==
    IF Nullish(edge) THEN EmptyObject ELSE Spread(EmptyObject, edge)

deserializeEdges(es) == MapSeq(deserializeEdge, es)

transformMetadata_defaultsWin(ver, now, metadata) ==
    Spread(IF metadata = Undefined THEN EmptyObject ELSE metadata.obj,
           [version |-> Str(ver), timestamp |-> Str(now)])

\* metadata is an object, or Undefined when the caller passes none
transformMetadata(ver, now, metadata) ==
    Spread([version |-> Str(ver), timestamp |-> Str(now)],
           IF metadata = Undefined THEN EmptyObject ELSE metadata.obj)

NodesError == "Invalid data format: nodes must be an array"
EdgesError == "Invalid data format: edges must be an array"

validateData_swappedNames(ver, data) ==
    IF ~Truthy(Get(data, "nodes")) \/ ~IsArray(Get(data, "nodes"))
    THEN [error |-> EdgesError, warnings |-> <<>>]
    ELSE IF ~Truthy(Get(data, "edges")) \/ ~IsArray(Get(data, "edges"))
    THEN [error |-> NodesError, warnings |-> <<>>]
    ELSE LET meta == Get(data, "metadata")
             v == IF DOMAIN meta = {"obj"} THEN Get(meta.obj, "version")
                  ELSE Undefined
         IN [error |-> "none",
             warnings |-> IF Truthy(v) /\ v # Str(ver)
                          THEN <<"Version mismatch">> ELSE <<>>]

validateData_strictVersion(ver, data) ==
    IF ~Truthy(Get(data, "nodes")) \/ ~IsArray(Get(data, "nodes"))
    THEN [error |-> NodesError, warnings |-> <<>>]
    ELSE IF ~Truthy(Get(data, "edges")) \/ ~IsArray(Get(data, "edges"))
    THEN [error |-> EdgesError, warnings |-> <<>>]
    ELSE LET meta == Get(data, "metadata")
             v == IF DOMAIN meta = {"obj"} THEN Get(meta.obj, "version")
                  ELSE Undefined
         IN [error |-> IF Truthy(v) /\ v # Str(ver)
                       THEN "Version mismatch" ELSE "none",
             warnings |-> <<>>]

\* the outcome of validateData: the error thrown ("none" when it returns) and
\* the warnings written to the console
validateData(ver, data) ==
    IF ~Truthy(Get(data, "nodes")) \/ ~IsArray(Get(data, "nodes"))
    THEN [error |-> NodesError, warnings |-> <<>>]
    ELSE IF ~Truthy(Get(data, "edges")) \/ ~IsArray(Get(data, "edges"))
    THEN [error |-> EdgesError, warnings |-> <<>>]
    ELSE LET meta == Get(data, "metadata")
             \* data.metadata?.version
             v == IF DOMAIN meta = {"obj"} THEN Get(meta.obj, "version")
                  ELSE Undefined
         IN [error |-> "none",
             warnings |-> IF Truthy(v) /\ v # Str(ver)
                          THEN <<"Version mismatch">> ELSE <<>>]

\* export(nodes, edges, metadata)
export(ver, now, ns, es, metadata) ==
    [nodes |-> Arr(serializeNodes(ns)),
     edges |-> Arr(serializeEdges(es)),
     metadata |-> Obj(transformMetadata(ver, now, metadata))]

NoResult ==
    [error |-> "none", warnings |-> <<>>, nodes |-> <<>>, edges |-> <<>>,
     ran |-> <<>>]

\* node.position read on an array element that is null or undefined
PositionOfNullError == "TypeError: Cannot read properties of null (reading 'position')"

\* import(data): validateData and then the two deserialization stages, in
\* this order; an exception leaves the call at the stage that throws.  ran
\* lists the stages entered.
import(ver, data) ==
    LET valid == validateData(ver, data)
    IN IF valid.error # "none"
       THEN [error |-> valid.error, warnings |-> valid.warnings,
             nodes |-> <<>>, edges |-> <<>>, ran |-> <<"validateData">>]
       ELSE IF \E i \in 1..Len(data.nodes.arr) : Nullish(data.nodes.arr[i])
       THEN [error |-> PositionOfNullError, warnings |-> valid.warnings,
             nodes |-> <<>>, edges |-> <<>>,
             ran |-> <<"validateData", "deserializeNodes">>]
       ELSE [error |-> "none", warnings |-> valid.warnings,
             nodes |-> deserializeNodes(data.nodes.arr),
             edges |-> deserializeEdges(data.edges.arr),
             ran |-> <<"validateData", "deserializeNodes", "deserializeEdges">>]

\* a text: either the JSON encoding of a value or text that is no JSON
JSONText(value) == [json |-> value]
MalformedText == [garbage |-> "{ nodes: [ "]
SyntaxErrorCause == "SyntaxError: Unexpected token"

\* JSON.parse: the value encoded, or a SyntaxError
JSONparse(text) ==
    IF DOMAIN text = {"json"} THEN [error |-> "none", value |-> text.json]
    ELSE [error |-> SyntaxErrorCause, value |-> Undefined]

\* new Error(`Failed to parse JSON: ${error}`)
ParseFailure(cause) == "Failed to parse JSON: " \o cause

\* importFromJSON(json): whatever JSON.parse or import throws is caught and
\* thrown again as a parse failure (an Error is rendered "Error: <message>")
importFromJSON(ver, json) ==
    LET parsed == JSONparse(json)
        result == import(ver, parsed.value)
    IN IF parsed.error # "none"
       THEN [error |-> ParseFailure(parsed.error), warnings |-> <<>>,
             nodes |-> <<>>, edges |-> <<>>, ran |-> <<>>]
       ELSE IF result.error \in {NodesError, EdgesError}
       THEN [result EXCEPT !.error = ParseFailure("Error: " \o result.error)]
       ELSE IF result.error # "none"
       THEN [result EXCEPT !.error = ParseFailure(result.error)]
       ELSE result

\* clone(nodes, edges)
clone(ver, now, ns, es) == import(ver, export(ver, now, ns, es, Undefined))

(***************************************************************************)
(* Inputs of the pipeline                                                  *)
(***************************************************************************)
MaxFlavorNodes == 2
MaxFlavorEdges == 1

NodeIds == {"1", "2"}
Versions == {DefaultVersion, "2.0.0"}
Times == {"2024-01-01T00:00:00.000Z", "2024-01-02T00:00:00.000Z"}

\* nodes as the canvas holds them: the four fields every node has, the same
\* with optional and backend fields, and a bare node with no position or data
FlavorNodes ==
    UNION {{ [id |-> Str(i), type |-> Str("start"), position |-> Pos(0, 0),
              data |-> Obj([label |-> Str("Start")])],
             [id |-> Str(i), type |-> Str("end"), position |-> Pos(120, -40),
              data |-> Obj([label |-> Str("End"), format |-> Str("JSON")]),
              width |-> Num(180), backendId |-> Str("b7"),
              style |-> Obj([opacity |-> Num(1)])],
             [id |-> Str(i), type |-> Str("end")] } : i \in NodeIds}

FlavorEdges ==
    { [id |-> Str("e1-2"), source |-> Str("1"), target |-> Str("2")],
      [id |-> Str("e2-1"), source |-> Str("2"), target |-> Str("1"),
       sourceHandle |-> Str("choice-0"), label |-> Str("yes"),
       selected |-> Bool(TRUE)] }

FlavorMetadata ==
    {Undefined,
     Obj([author |-> Str("Demo User")]),
     Obj([version |-> Str("0.9.0"), timestamp |-> Num(1700000000)])}

\* envelopes that did not come from export
RawEnvelopes ==
    { [nodes |-> Arr(<<>>), edges |-> Arr(<<>>)],
      [nodes |-> Str("oops"), edges |-> Arr(<<>>)],
      [nodes |-> Arr(<<[id |-> Str("1")]>>), metadata |-> Obj(EmptyObject)],
      [nodes |-> Arr(<<[id |-> Str("1")]>>), edges |-> Arr(<<>>),
       metadata |-> Obj([version |-> Str("2.0.0")])],
      [nodes |-> Arr(<<Null>>),
       edges |-> Arr(<<[id |-> Str("e1-2"), source |-> Str("1"),
                        target |-> Str("2")]>>)] }

NoEnvelope == [nodes |-> Undefined, edges |-> Undefined]

FlavorInputs ==
    [nodes : SeqsUpTo(FlavorNodes, MaxFlavorNodes),
     edges : SeqsUpTo(FlavorEdges, MaxFlavorEdges),
     metadata : FlavorMetadata,
     now : Times,
     raw : RawEnvelopes]

\* a new Flavor(), before any call
FlavorNew ==
    /\ version = DefaultVersion
    /\ flavorCall = [op |-> "new", data |-> NoEnvelope, result |-> NoResult]

\* the pipeline at rest, with one fixed caller
FlavorIdle ==
    /\ FlavorNew
    /\ flavorIn = [nodes |-> <<>>, edges |-> <<>>, metadata |-> Undefined,
                   now |-> "2024-01-01T00:00:00.000Z",
                   raw |-> [nodes |-> Arr(<<>>), edges |-> Arr(<<>>)]]

\* the pipeline with any caller
FlavorInit ==
    /\ FlavorNew
    /\ flavorIn \in FlavorInputs

\* flavor.setVersion(v)
SetVersion(v) ==
    /\ version' = v
    /\ UNCHANGED <<flavorIn, flavorCall>>

\* flavor.export(nodes, edges, metadata)
Export ==
    /\ flavorCall' = [op |-> "export",
                      data |-> export(version, flavorIn.now, flavorIn.nodes,
                                      flavorIn.edges, flavorIn.metadata),
                      result |-> NoResult]
    /\ UNCHANGED <<version, flavorIn>>

\* flavor.import(data) of the envelope the last export returned
ImportExported ==
    /\ flavorCall.op = "export"
    /\ flavorCall' = [op |-> "importExported", data |-> flavorCall.data,
                      result |-> import(version, flavorCall.data)]
    /\ UNCHANGED <<version, flavorIn>>

\* flavor.import(data) of an envelope that did not come from export
Import ==
    /\ flavorCall' = [op |-> "import", data |-> flavorIn.raw,
                      result |-> import(version, flavorIn.raw)]
    /\ UNCHANGED <<version, flavorIn>>

\* flavor.importFromJSON(json) of text that is no JSON, or of the JSON text
\* of an envelope
ImportFromJSON(json) ==
    /\ flavorCall' = [op |-> "importFromJSON", data |-> json,
                      result |-> importFromJSON(version, json)]
    /\ UNCHANGED <<version, flavorIn>>

\* flavor.clone(nodes, edges)
Clone ==
    /\ flavorCall' = [op |-> "clone", data |-> NoEnvelope,
                      result |-> clone(version, flavorIn.now, flavorIn.nodes,
                                       flavorIn.edges)]
    /\ UNCHANGED <<version, flavorIn>>

FlavorNext ==
    \/ \E v \in Versions : SetVersion(v)
    \/ Export
    \/ ImportExported
    \/ Import
    \/ \E json \in {MalformedText, JSONText(flavorIn.raw)} : ImportFromJSON(json)
    \/ Clone

(***************************************************************************)
(* useFlow, as the example application composes it with a controlled       *)
(* canvas: the hook owns nodes and edges, the canvas reports connections   *)
(* through onConnect.                                                      *)
(***************************************************************************)
MaxNodes == 2
MaxEdges == 2

\* what the parent has been told when a callback runs: the collection the
\* callback carries, and the other collection as last reported
Notify(cb, ns, es) == [cb |-> cb, nodes |-> ns, edges |-> es]

\* setNodes updater of addNode
addNodeUpdater(nds, node) == Append(nds, node)

\* setNodes updater of removeNode
removeNodeNodes(nds, nodeId) ==
    SelectSeq(nds, LAMBDA n : Get(n, "id") # nodeId)

removeNodeEdges_sourceOnly(eds, nodeId) ==
    SelectSeq(eds, LAMBDA e : Get(e, "source") # nodeId)

\* setEdges updater of removeNode
removeNodeEdges(eds, nodeId) ==
    SelectSeq(eds, LAMBDA e : Get(e, "source") # nodeId /\ Get(e, "target") # nodeId)

\* the edge addEdge stores for an Edge (it has an id) or a Connection
newEdgeOf(edge) ==
    IF HasKey(edge, "id")
    THEN edge
    ELSE [id |-> Str("e" \o edge.source.str \o "-" \o edge.target.str),
          source |-> edge.source,
          target |-> edge.target,
          sourceHandle |-> Get(edge, "sourceHandle"),
          targetHandle |-> Get(edge, "targetHandle")]

\* setEdges updater of addEdge
addEdgeUpdater(eds, edge) == Append(eds, newEdgeOf(edge))

\* setEdges updater of removeEdge
removeEdgeUpdater(eds, edgeId) ==
    SelectSeq(eds, LAMBDA e : Get(e, "id") # edgeId)

\* the edge the application's onConnect builds from a connection
onConnectEdge(connection) ==
    Spread([id |-> Str("e" \o connection.source.str \o "-" \o connection.target.str)],
           connection)

SessionInit ==
    /\ nodes = <<>>
    /\ edges = <<>>
    /\ sessionCall = [op |-> "useFlow", arg |-> Undefined, preNodes |-> <<>>,
                      preEdges |-> <<>>, error |-> "none", notified |-> <<>>]

addNode(node) ==
    /\ Len(nodes) < MaxNodes
    /\ nodes' = addNodeUpdater(nodes, node)
    /\ edges' = edges
    /\ sessionCall' = [op |-> "addNode", arg |-> node, preNodes |-> nodes,
                       preEdges |-> edges, error |-> "none",
                       notified |-> <<Notify("onNodesChange", nodes', edges)>>]

removeNode(nodeId) ==
    /\ nodes' = removeNodeNodes(nodes, nodeId)
    /\ edges' = removeNodeEdges(edges, nodeId)
    /\ sessionCall' = [op |-> "removeNode", arg |-> nodeId, preNodes |-> nodes,
                       preEdges |-> edges, error |-> "none",
                       notified |-> <<Notify("onNodesChange", nodes', edges),
                                      Notify("onEdgesChange", nodes', edges')>>]

addEdge(edge) ==
    /\ Len(edges) < MaxEdges
    /\ edges' = addEdgeUpdater(edges, edge)
    /\ nodes' = nodes
    /\ sessionCall' = [op |-> "addEdge", arg |-> edge, preNodes |-> nodes,
                       preEdges |-> edges, error |-> "none",
                       notified |-> <<Notify("onEdgesChange", nodes, edges')>>]

removeEdge(edgeId) ==
    /\ edges' = removeEdgeUpdater(edges, edgeId)
    /\ nodes' = nodes
    /\ sessionCall' = [op |-> "removeEdge", arg |-> edgeId, preNodes |-> nodes,
                       preEdges |-> edges, error |-> "none",
                       notified |-> <<Notify("onEdgesChange", nodes, edges')>>]

clear ==
    /\ nodes' = <<>>
    /\ edges' = <<>>
    /\ sessionCall' = [op |-> "clear", arg |-> Undefined, preNodes |-> nodes,
                       preEdges |-> edges, error |-> "none",
                       notified |-> <<Notify("onNodesChange", <<>>, edges),
                                      Notify("onEdgesChange", <<>>, <<>>)>>]

\* Flow.handleConnect in controlled mode: only onConnect is called, and the
\* application adds the edge through addEdge
handleConnect(connection) ==
    /\ Len(edges) < MaxEdges
    /\ edges' = addEdgeUpdater(edges, onConnectEdge(connection))
    /\ nodes' = nodes
    /\ sessionCall' = [op |-> "connect", arg |-> connection, preNodes |-> nodes,
                       preEdges |-> edges, error |-> "none",
                       notified |-> <<Notify("onEdgesChange", nodes, edges')>>]

\* inputs
Endpoints == NodeIds \cup {"missing"}
Handles == {Null, Str("choice-0")}

SessionNodes ==
    {[id |-> Str(i), type |-> Str("baseNode"), position |-> Pos(100, 100),
      data |-> Obj([label |-> Str("Node")])] : i \in NodeIds}

Connection(s, t, sh, th) ==
    [source |-> Str(s), target |-> Str(t), sourceHandle |-> sh, targetHandle |-> th]

EdgeCandidates ==
    {Connection(s, t, Null, Null) : s \in Endpoints, t \in Endpoints}
    \cup {Connection("1", "2", Str("choice-0"), Null)}
    \cup {[id |-> Str("e9"), source |-> Str("1"), target |-> Str("2")]}

NodeIdsOf(nds) == {Get(nds[i], "id") : i \in 1..Len(nds)}
EdgeIdsOf(eds) == {Get(eds[i], "id") : i \in 1..Len(eds)}

\* an endpoint of the edge is no node's id
Dangling(e, nds) ==
    \/ Get(e, "source") \notin NodeIdsOf(nds)
    \/ Get(e, "target") \notin NodeIdsOf(nds)

\* the canvas offers a connection between handles of two rendered nodes
CanvasConnections ==
    {[source |-> s, target |-> t, sourceHandle |-> sh, targetHandle |-> Null] :
        s \in NodeIdsOf(nodes), t \in NodeIdsOf(nodes), sh \in Handles}

SessionNext ==
    \/ \E node \in SessionNodes : addNode(node)
    \/ \E i \in Endpoints : removeNode(Str(i))
    \/ \E edge \in EdgeCandidates : addEdge(edge)
    \/ \E id \in EdgeIdsOf(edges) \cup {Str("e0")} : removeEdge(id)
    \/ clear
    \/ \E connection \in CanvasConnections : handleConnect(connection)

(***************************************************************************)
(* RegisterHelper.  A Map is the sequence of its entries in insertion      *)
(* order: set on a present key replaces the value in place, set on a new   *)
(* key appends, delete removes the entry.                                  *)
(***************************************************************************)
MapKeys(m) == {m[i].key : i \in 1..Len(m)}
MapHas(m, k) == k \in MapKeys(m)
MapGet(m, k) ==
    IF MapHas(m, k) THEN m[CHOOSE i \in 1..Len(m) : m[i].key = k].value
    ELSE Undefined
MapSet(m, k, v) ==
    IF MapHas(m, k)
    THEN [i \in 1..Len(m) |-> IF m[i].key = k THEN [key |-> k, value |-> v] ELSE m[i]]
    ELSE Append(m, [key |-> k, value |-> v])
MapDelete(m, k) == SelectSeq(m, LAMBDA e : e.key # k)
MapValues(m) == [i \in 1..Len(m) |-> m[i].value]

\* a React component, opaque to the registry
Component(c) == [component |-> c]

\* the registry as a value: both maps, and the warnings console.warn received
Registry(types, configs, warnings) ==
    [nodeTypes |-> types, nodeConfigs |-> configs, warnings |-> warnings]

register_noOverwrite(reg, type, component, defaultData, icon, description) ==
    IF MapHas(reg.nodeTypes, type)
    THEN Registry(reg.nodeTypes, reg.nodeConfigs,
                  Append(reg.warnings, "already registered: " \o type))
    ELSE Registry(MapSet(reg.nodeTypes, type, component),
                  MapSet(reg.nodeConfigs, type,
                         [type |-> Str(type), component |-> component,
                          defaultData |-> defaultData, icon |-> icon,
                          description |-> description]),
                  reg.warnings)

\* RegisterHelper.register
register(reg, type, component, defaultData, icon, description) ==
    Registry(MapSet(reg.nodeTypes, type, component),
             MapSet(reg.nodeConfigs, type,
                    [type |-> Str(type), component |-> component,
                     defaultData |-> defaultData, icon |-> icon,
                     description |-> description]),
             IF MapHas(reg.nodeTypes, type)
             THEN Append(reg.warnings, "already registered: " \o type)
             ELSE reg.warnings)

RECURSIVE registerBatch_skipRegistered(_, _)
registerBatch_skipRegistered(reg, configs) ==
    IF configs = <<>> THEN reg
    ELSE registerBatch_skipRegistered(
             IF MapHas(reg.nodeTypes, Head(configs).type.str) THEN reg
             ELSE register(reg, Head(configs).type.str, Head(configs).component,
                           Get(Head(configs), "defaultData"), Undefined, Undefined),
             Tail(configs))

\* RegisterHelper.registerBatch: configs.forEach(register(type, component, defaultData))
RECURSIVE registerBatch(_, _)
registerBatch(reg, configs) ==
    IF configs = <<>> THEN reg
    ELSE registerBatch(register(reg, Head(configs).type.str, Head(configs).component,
                                Get(Head(configs), "defaultData"), Undefined, Undefined),
                       Tail(configs))

unregister_keepConfig(reg, type) ==
    [registry |-> Registry(MapDelete(reg.nodeTypes, type), reg.nodeConfigs,
                           reg.warnings),
     result |-> MapHas(reg.nodeTypes, type)]

\* RegisterHelper.unregister: the registry after it and the value returned
unregister(reg, type) ==
    [registry |-> Registry(MapDelete(reg.nodeTypes, type),
                           MapDelete(reg.nodeConfigs, type), reg.warnings),
     result |-> MapHas(reg.nodeTypes, type)]

\* RegisterHelper.getNodeTypes: a plain object from type to component
getNodeTypes(reg) == [k \in MapKeys(reg.nodeTypes) |-> MapGet(reg.nodeTypes, k)]
\* RegisterHelper.getConfig
getConfig(reg, type) == MapGet(reg.nodeConfigs, type)
\* RegisterHelper.getAllConfigs
getAllConfigs(reg) == MapValues(reg.nodeConfigs)
\* RegisterHelper.isRegistered
isRegistered(reg, type) == MapHas(reg.nodeTypes, type)
\* RegisterHelper.getComponent
getComponent(reg, type) == MapGet(reg.nodeTypes, type)
clearRegistry_typesOnly(reg) == Registry(<<>>, reg.nodeConfigs, reg.warnings)

\* RegisterHelper.clear
clearRegistry(reg) == Registry(<<>>, <<>>, reg.warnings)

(***************************************************************************)
(* The registry in use: registrations change while the canvas creates      *)
(* nodes from it (Flow.handleDrop, controlled mode).                       *)
(***************************************************************************)
MaxBatch == 2
MaxDropped == 2

TypeKeys == {"baseNode", "output"}
Components == {Component("BaseNode"), Component("OutputNode")}
DefaultDatas == {Undefined, Obj([label |-> Str("Output"), format |-> Str("JSON")])}
DropTimes == {1700000000}

\* the NodeConfig entries a registerBatch call lists
NodeConfigs ==
    {[type |-> Str("baseNode"), component |-> Component("BaseNode")],
     [type |-> Str("baseNode"), component |-> Component("OutputNode"),
      defaultData |-> Obj([label |-> Str("Output"), format |-> Str("JSON")])],
     [type |-> Str("output"), component |-> Component("OutputNode"),
      defaultData |-> Obj([label |-> Str("Output"), format |-> Str("JSON")])]}

CurrentRegistry == Registry(nodeTypes, nodeConfigs, <<>>)

RegistryCall(op, type, args, result, warnings) ==
    [op |-> op, type |-> type, args |-> args, result |-> result,
     warnings |-> warnings, error |-> "none"]

RegistryInit ==
    /\ nodeTypes = <<>>
    /\ nodeConfigs = <<>>
    /\ registryCall = [op |-> "load", type |-> "", args |-> <<>>,
                       result |-> Undefined, warnings |-> <<>>, error |-> "none"]

Register(type, component, defaultData, icon, description) ==
    LET r == register(CurrentRegistry, type, component, defaultData, icon, description)
    IN /\ nodeTypes' = r.nodeTypes
       /\ nodeConfigs' = r.nodeConfigs
       /\ registryCall' = RegistryCall("register", type,
              <<component, defaultData, icon, description>>, Undefined, r.warnings)
       /\ UNCHANGED nodes

RegisterBatch(configs) ==
    LET r == registerBatch(CurrentRegistry, configs)
    IN /\ nodeTypes' = r.nodeTypes
       /\ nodeConfigs' = r.nodeConfigs
       /\ registryCall' = RegistryCall("registerBatch", "", configs, Undefined,
                                       r.warnings)
       /\ UNCHANGED nodes

Unregister(type) ==
    LET r == unregister(CurrentRegistry, type)
    IN /\ nodeTypes' = r.registry.nodeTypes
       /\ nodeConfigs' = r.registry.nodeConfigs
       /\ registryCall' = RegistryCall("unregister", type, <<>>, Bool(r.result),
                                       r.registry.warnings)
       /\ UNCHANGED nodes

ClearRegistry ==
    LET r == clearRegistry(CurrentRegistry)
    IN /\ nodeTypes' = r.nodeTypes
       /\ nodeConfigs' = r.nodeConfigs
       /\ registryCall' = RegistryCall("clear", "", <<>>, Undefined, r.warnings)
       /\ UNCHANGED nodes

\* the node Flow.handleDrop builds for a dropped type key
droppedNode(reg, type, position, now, count) ==
    LET config == getConfig(reg, type)
        \* config?.defaultData || {}
        given == IF config = Undefined THEN Undefined ELSE Get(config, "defaultData")
        defaultData == IF Truthy(given) THEN given.obj ELSE EmptyObject
    IN [id |-> Str("node_" \o ToString(now)),
        type |-> Str(type),
        position |-> position,
        data |-> Obj(Spread(defaultData,
                    [label |-> IF Truthy(Get(defaultData, "label"))
                               THEN Get(defaultData, "label")
                               ELSE Str(type \o " " \o ToString(count + 1))]))]

\* Flow.handleDrop on an initialised canvas in controlled mode: the parent
\* stores the list onNodesChange carries
HandleDrop(type, position, now) ==
    /\ Len(nodes) < MaxDropped
    /\ nodes' = Append(nodes,
                       droppedNode(CurrentRegistry, type, position, now, Len(nodes)))
    /\ registryCall' = RegistryCall("handleDrop", type, <<position>>, Undefined, <<>>)
    /\ UNCHANGED <<nodeTypes, nodeConfigs>>

RegistryNext ==
    \/ \E t \in TypeKeys, c \in Components, d \in DefaultDatas :
          Register(t, c, d, Undefined, Undefined)
    \/ \E configs \in SeqsUpTo(NodeConfigs, MaxBatch) : RegisterBatch(configs)
    \/ \E t \in TypeKeys : Unregister(t)
    \/ ClearRegistry
    \/ \E t \in TypeKeys, now \in DropTimes : HandleDrop(t, Pos(0, 0), now)

(***************************************************************************)
(* dagre.layout, the layered drawing getLayoutedElements delegates to.     *)
(* The graph holds its nodes and edges as Maps (setNode and setEdge on a   *)
(* present key overwrite).  Ranks are longest paths from the sources over  *)
(* the edges that close no cycle; a rank is as deep as its deepest node    *)
(* and ranks are ranksep apart; the nodes of a rank are nodesep apart, in  *)
(* insertion order, each rank centred on the longest one; the drawing      *)
(* starts at the margins.  Coordinates are centres.                        *)
(***************************************************************************)
Max2(a, b) == IF a >= b THEN a ELSE b
MaxOf(S) == CHOOSE m \in S : \A n \in S : m >= n
RECURSIVE SumSeq(_)
SumSeq(s) == IF s = <<>> THEN 0 ELSE Head(s) + SumSeq(Tail(s))

\* v reaches w over the edges E in at most n steps
RECURSIVE Reaches(_, _, _, _)
Reaches(E, v, w, n) ==
    \/ v = w
    \/ n > 0 /\ \E e \in E : e[1] = v /\ Reaches(E, e[2], w, n - 1)

\* the edges that constrain ranks: in insertion order, every edge that is
\* no self-loop and closes no cycle with the edges kept before it
RECURSIVE rankingEdges(_, _, _)
rankingEdges(es, kept, n) ==
    IF es = <<>> THEN kept
    ELSE rankingEdges(Tail(es),
                      IF Reaches(kept, Head(es)[2], Head(es)[1], n)
                      THEN kept ELSE kept \cup {Head(es)},
                      n)

\* longest path from a source
RECURSIVE rankOf(_, _)
rankOf(E, v) ==
    LET preds == {e[1] : e \in {d \in E : d[2] = v}}
    IN IF preds = {} THEN 0 ELSE 1 + MaxOf({rankOf(E, u) : u \in preds})

dagreLayout(options, gnodes, gedges) ==
    LET ids == [i \in 1..Len(gnodes) |-> gnodes[i].key]
        size == [v \in MapKeys(gnodes) |-> MapGet(gnodes, v)]
        E == rankingEdges([i \in 1..Len(gedges) |-> gedges[i].key], {}, Len(gnodes))
        rank == [v \in MapKeys(gnodes) |-> rankOf(E, v)]
        isLR == options.rankdir = "LR"
        mainSize(v) == IF isLR THEN size[v].width ELSE size[v].height
        crossSize(v) == IF isLR THEN size[v].height ELSE size[v].width
        mainMargin == IF isLR THEN options.marginx ELSE options.marginy
        crossMargin == IF isLR THEN options.marginy ELSE options.marginx
        ranks == {rank[v] : v \in MapKeys(gnodes)}
        layer(r) == SelectSeq(ids, LAMBDA v : rank[v] = r)
        extent == [r \in ranks |-> MaxOf({mainSize(v) : v \in MapKeys(gnodes) \cap
                                            {w \in MapKeys(gnodes) : rank[w] = r}})]
        layerStart[r \in ranks] ==
            IF r = 0 THEN mainMargin
            ELSE layerStart[r - 1] + extent[r - 1] + options.ranksep
        length(vs) == SumSeq([i \in 1..Len(vs) |-> crossSize(vs[i])])
                      + options.nodesep * (Len(vs) - 1)
        longest == MaxOf({length(layer(r)) : r \in ranks})
        before(v) == LET vs == layer(rank[v])
                         k == CHOOSE i \in 1..Len(vs) : vs[i] = v
                     IN SubSeq(vs, 1, k - 1)
        mainCentre(v) == layerStart[rank[v]] + extent[rank[v]] \div 2
        crossCentre(v) ==
            crossMargin + (longest - length(layer(rank[v]))) \div 2
            + SumSeq([i \in 1..Len(before(v)) |->
                         crossSize(before(v)[i]) + options.nodesep])
            + crossSize(v) \div 2
    IN [v \in MapKeys(gnodes) |->
          [x |-> IF isLR THEN mainCentre(v) ELSE crossCentre(v),
           y |-> IF isLR THEN crossCentre(v) ELSE mainCentre(v),
           width |-> size[v].width,
           height |-> size[v].height]]

(***************************************************************************)
(* getLayoutedElements and Flow.onAutoLayout                               *)
(***************************************************************************)
\* onAutoLayout.getNodeDimensions: the size of the node's element, at least
\* 180 by 40, or null when the node has no element
getNodeDimensions(dom, nodeId) ==
    IF nodeId.str \in DOMAIN dom
    THEN [width |-> Max2(dom[nodeId.str].width, 180),
          height |-> Max2(dom[nodeId.str].height, 40)]
    ELSE Null

\* the width and height getLayoutedElements gives dagre for a node
nodeDimensions(node, actualDimensions) ==
    IF Truthy(actualDimensions)
    THEN [width |-> actualDimensions.width + 20,
          height |-> actualDimensions.height + 20]
    ELSE LET label == Get(node.data.obj, "label")
             isCollapsed == Truthy(Get(node.data.obj, "collapsed"))
         IN [width |-> IF DOMAIN label = {"str"} /\ Len(label.str) > 10
                       THEN 280 ELSE 180,
             height |-> 40 + (IF isCollapsed THEN 0 ELSE 80)]

graphOptions_fixedTB(direction) ==
    [rankdir |-> "TB", nodesep |-> 80, ranksep |-> 150, marginx |-> 20, marginy |-> 20]

\* dagreGraph.setGraph
graphOptions(direction) ==
    [rankdir |-> direction, nodesep |-> 80, ranksep |-> 150,
     marginx |-> 20, marginy |-> 20]

RECURSIVE setNodes_firstOnly(_, _, _)
setNodes_firstOnly(g, nds, dom) ==
    IF nds = <<>> THEN g
    ELSE MapSet(g, Head(nds).id.str,
                nodeDimensions(Head(nds), getNodeDimensions(dom, Head(nds).id)))

\* nodes.forEach(dagreGraph.setNode)
RECURSIVE setNodes(_, _, _)
setNodes(g, nds, dom) ==
    IF nds = <<>> THEN g
    ELSE setNodes(MapSet(g, Head(nds).id.str,
                         nodeDimensions(Head(nds), getNodeDimensions(dom, Head(nds).id))),
                  Tail(nds), dom)

\* edges.forEach(dagreGraph.setEdge)
RECURSIVE setEdges(_, _)
setEdges(g, eds) ==
    IF eds = <<>> THEN g
    ELSE setEdges(MapSet(g, <<Head(eds).source.str, Head(eds).target.str>>, EmptyObject),
                  Tail(eds))

layoutedNode_swapped(node, nodeWithPosition) ==
    Spread(node,
           [position |-> Pos(nodeWithPosition.x - nodeWithPosition.width \div 2,
                             nodeWithPosition.x - nodeWithPosition.height \div 2)])

layoutedNode_relative(node, nodeWithPosition) ==
    Spread(node,
           [position |-> Pos(node.position.x + nodeWithPosition.x
                                 - nodeWithPosition.width \div 2,
                             node.position.y + nodeWithPosition.y
                                 - nodeWithPosition.height \div 2)])

layoutedNode_bare(node, nodeWithPosition) ==
    [id |-> node.id,
     position |-> Pos(nodeWithPosition.x - nodeWithPosition.width \div 2,
                      nodeWithPosition.y - nodeWithPosition.height \div 2)]

\* the node returned for a node dagre has placed: its centre made a top-left
\* corner (every width and height of the model is even, so the halves are exact)
layoutedNode(node, nodeWithPosition) ==
    Spread(node,
           [position |-> Pos(nodeWithPosition.x - nodeWithPosition.width \div 2,
                             nodeWithPosition.y - nodeWithPosition.height \div 2)])

\* the call fails with a TypeError when dagreGraph.node(node.id) is undefined
\* (its width is read); otherwise it returns the placed nodes and the edges
getLayoutedElements(nds, eds, direction, dom) ==
    LET placed == dagreLayout(graphOptions(direction),
                              setNodes(<<>>, nds, dom), setEdges(<<>>, eds))
    IN IF \E i \in 1..Len(nds) : nds[i].id.str \notin DOMAIN placed
       THEN [error |-> "TypeError", nodes |-> <<>>, edges |-> <<>>]
       ELSE [error |-> "none",
             nodes |-> [i \in 1..Len(nds) |->
                          layoutedNode(nds[i], placed[nds[i].id.str])],
             edges |-> eds]

(***************************************************************************)
(* The canvas being laid out (controlled mode: the parent stores the nodes *)
(* onNodesChange carries).                                                 *)
(***************************************************************************)
MaxLayoutNodes == 3
MaxLayoutEdges == 2

LayoutIds == {ToString(i) : i \in 1..MaxLayoutNodes}

\* node i of the graph as dropped; node 2 may also have been moved and
\* collapsed by the user
LayoutNodeShapes(i) ==
    {[id |-> Str(ToString(i)), type |-> Str("baseNode"), position |-> Pos(0, 0),
      data |-> Obj([label |-> Str("Start")])]}
    \cup
    (IF i = 2
     THEN {[id |-> Str(ToString(i)), type |-> Str("dataProcess"),
            position |-> Pos(400, 100),
            data |-> Obj([label |-> Str("Process Data"), collapsed |-> Bool(TRUE)]),
            selected |-> Bool(TRUE)]}
     ELSE {})

LayoutNodeLists ==
    UNION {{ns \in [1..k -> UNION {LayoutNodeShapes(i) : i \in 1..k}] :
              \A i \in 1..k : ns[i] \in LayoutNodeShapes(i)} : k \in 0..MaxLayoutNodes}

LayoutEdge(s, t) ==
    [id |-> Str("e" \o s \o "-" \o t), source |-> Str(s), target |-> Str(t)]

\* the DOM: no node rendered yet, or every node rendered, node "1" larger
Rendered(nds) ==
    {EmptyObject,
     [v \in {nds[i].id.str : i \in 1..Len(nds)} |->
        IF v = "1" THEN [width |-> 300, height |-> 160]
        ELSE [width |-> 150, height |-> 100]]}

LayoutInit ==
    /\ footprints = EmptyObject
    /\ layoutCall = [op |-> "mount", direction |-> "", preNodes |-> <<>>,
                     again |-> FALSE, error |-> "none", edges |-> <<>>]

\* a canvas holding any graph whose edges join its nodes
LayoutAny ==
    /\ nodes \in LayoutNodeLists
    /\ edges \in SeqsUpTo({LayoutEdge(s, t) : s \in LayoutIds, t \in LayoutIds},
                          MaxLayoutEdges)
    /\ \A i \in 1..Len(edges) : ~Dangling(edges[i], nodes)
    /\ footprints \in Rendered(nodes)
    /\ layoutCall = [op |-> "mount", direction |-> "", preNodes |-> <<>>,
                     again |-> FALSE, error |-> "none", edges |-> <<>>]
    /\ sessionCall = [op |-> "useFlow", arg |-> Undefined, preNodes |-> nodes,
                      preEdges |-> edges, error |-> "none", notified |-> <<>>]

\* getLayoutedElements(actualNodes, actualEdges, direction, getNodeDimensions)
\* and the parent storing its nodes; Flow.onAutoLayout is the case "LR"
\* (a call that throws reports nothing, so the parent keeps its nodes)
AutoLayout(direction) ==
    LET layouted == getLayoutedElements(nodes, edges, direction, footprints)
    IN /\ nodes' = IF layouted.error = "none" THEN layouted.nodes ELSE nodes
       /\ layoutCall' = [op |-> "layout", direction |-> direction,
                         preNodes |-> nodes,
                         again |-> (layoutCall.op = "layout"
                                    /\ layoutCall.direction = direction),
                         error |-> layouted.error, edges |-> layouted.edges]
       /\ UNCHANGED <<edges, footprints, sessionCall>>

LayoutNext == \E direction \in {"TB", "LR"} : AutoLayout(direction)

(***************************************************************************)
(* reactflow's applyNodeChanges, applyEdgeChanges and addEdge, which the   *)
(* canvas delegates to.  A change removes the element of an id, selects it *)
(* or moves it; changes apply in order.  addEdge appends the edge of a     *)
(* connection under an id made of its endpoints and handles, unless an     *)
(* edge of the same endpoints and handles is there already.                *)
(***************************************************************************)
RECURSIVE applyNodeChanges(_, _)
applyNodeChanges(changes, nds) ==
    IF changes = <<>> THEN nds
    ELSE LET change == Head(changes)
         IN applyNodeChanges(
                Tail(changes),
                IF change.type = "remove"
                THEN SelectSeq(nds, LAMBDA el : el.id # change.id)
                ELSE [i \in 1..Len(nds) |->
                        IF nds[i].id # change.id THEN nds[i]
                        ELSE IF change.type = "select"
                        THEN Spread(nds[i], [selected |-> Bool(change.selected)])
                        ELSE Spread(nds[i], [position |-> change.position])])

\* reactflow applies node changes and edge changes with one function
applyEdgeChanges(changes, eds) == applyNodeChanges(changes, eds)

reactflowAddEdge(connection, eds) ==
    LET handleText(h) == IF Truthy(h) THEN h.str ELSE ""
    IN IF \E i \in 1..Len(eds) :
             /\ eds[i].source = connection.source
             /\ eds[i].target = connection.target
             /\ handleText(Get(eds[i], "sourceHandle"))
                = handleText(connection.sourceHandle)
             /\ handleText(Get(eds[i], "targetHandle"))
                = handleText(connection.targetHandle)
       THEN eds
       ELSE Append(eds,
                   Spread(connection,
                          [id |-> Str("reactflow__edge-" \o connection.source.str
                                      \o handleText(connection.sourceHandle) \o "-"
                                      \o connection.target.str
                                      \o handleText(connection.targetHandle))]))

(***************************************************************************)
(* Flow, the canvas component.  `flow` holds one mounted canvas: the props *)
(* of its last render (nodesProp, edgesProp, mode), its useState values    *)
(* (nodes, edges, allCollapsed), the values of that state its last render  *)
(* saw (the handlers are closures of the last render) and the memoised     *)
(* nodeTypes.  The parent keeps `nodes` and `edges`, as the application    *)
(* does: onNodesChange and onEdgesChange store the collection they carry   *)
(* and onConnect adds the edge through addEdge; a render supplies them     *)
(* again in controlled mode.                                               *)
(***************************************************************************)
\* const isControlled = nodesProp !== undefined || edgesProp !== undefined
isControlled(f) == f.nodesProp # Undefined \/ f.edgesProp # Undefined
\* isControlled ? (nodesProp || []) : nodes, as the last render computed it
actualNodes(f) ==
    IF isControlled(f)
    THEN (IF Truthy(f.nodesProp) THEN f.nodesProp.arr ELSE <<>>)
    ELSE f.rendered.nodes
actualEdges(f) ==
    IF isControlled(f)
    THEN (IF Truthy(f.edgesProp) THEN f.edgesProp.arr ELSE <<>>)
    ELSE f.rendered.edges

\* the nodeTypes memo: every registered type wrapped with onDataChange and readOnly
wrappedTypes(reg, mode) ==
    LET registeredTypes == getNodeTypes(reg)
    IN [type \in DOMAIN registeredTypes |->
          [component |-> registeredTypes[type], readOnly |-> (mode = "read")]]

\* the first render of a canvas
mountFlow(initialNodes, initialEdges, nodesProp, edgesProp, mode, reg) ==
    [mounted |-> TRUE, nodesProp |-> nodesProp, edgesProp |-> edgesProp, mode |-> mode,
     nodes |-> initialNodes, edges |-> initialEdges, allCollapsed |-> FALSE,
     rendered |-> [nodes |-> initialNodes, edges |-> initialEdges,
                   allCollapsed |-> FALSE],
     nodeTypes |-> wrappedTypes(reg, mode)]

\* a later render: new props, the current state, and the memo recomputed
\* only when mode, its one dependency, has changed
renderFlow(f, nodesProp, edgesProp, mode, reg) ==
    [f EXCEPT !.nodesProp = nodesProp, !.edgesProp = edgesProp, !.mode = mode,
              !.rendered = [nodes |-> f.nodes, edges |-> f.edges,
                            allCollapsed |-> f.allCollapsed],
              !.nodeTypes = IF mode # f.mode THEN wrappedTypes(reg, mode) ELSE @]

\* what a handler did: the canvas after it and the argument of each parent
\* callback it called (undefined: not called)
Handled(f, onNodesChange, onEdgesChange, onConnect) ==
    [flow |-> f, onNodesChange |-> onNodesChange, onEdgesChange |-> onEdgesChange,
     onConnect |-> onConnect]

handleNodesChange(f, changes) ==
    IF ~isControlled(f)
    THEN LET updatedNodes == applyNodeChanges(changes, f.nodes)
         IN Handled([f EXCEPT !.nodes = updatedNodes], Arr(updatedNodes),
                    Undefined, Undefined)
    ELSE Handled(f, Arr(applyNodeChanges(changes, actualNodes(f))),
                 Undefined, Undefined)

handleEdgesChange(f, changes) ==
    IF ~isControlled(f)
    THEN LET updatedEdges == applyEdgeChanges(changes, f.edges)
         IN Handled([f EXCEPT !.edges = updatedEdges], Undefined,
                    Arr(updatedEdges), Undefined)
    ELSE Handled(f, Undefined, Arr(applyEdgeChanges(changes, actualEdges(f))),
                 Undefined)

flowHandleConnect(f, connection) ==
    Handled(IF ~isControlled(f)
            THEN [f EXCEPT !.edges = reactflowAddEdge(connection, f.edges)]
            ELSE f,
            Undefined, Undefined, connection)

\* nds.map(node => node.id === nodeId ? {...node, data: {...node.data, ...newData}} : node)
mergeNodeData(nds, nodeId, newData) ==
    [i \in 1..Len(nds) |->
        IF nds[i].id = nodeId
        THEN Spread(nds[i], [data |-> Obj(Spread(nds[i].data.obj, newData))])
        ELSE nds[i]]

handleNodeDataChange(f, nodeId, newData) ==
    IF ~isControlled(f)
    THEN LET updatedNodes == mergeNodeData(f.nodes, nodeId, newData)
         IN Handled([f EXCEPT !.nodes = updatedNodes], Arr(updatedNodes),
                    Undefined, Undefined)
    ELSE Handled(f, Arr(mergeNodeData(actualNodes(f), nodeId, newData)),
                 Undefined, Undefined)

\* the layout of the nodes and edges of the last render, left to right; a
\* call that throws changes and reports nothing
onAutoLayout(f, dom) ==
    LET layouted == getLayoutedElements(actualNodes(f), actualEdges(f), "LR", dom)
    IN IF layouted.error # "none" THEN Handled(f, Undefined, Undefined, Undefined)
       ELSE Handled(IF ~isControlled(f) THEN [f EXCEPT !.nodes = layouted.nodes]
                    ELSE f,
                    Arr(layouted.nodes), Undefined, Undefined)

\* actualNodes.map(node => ({...node, data: {...node.data, collapsed}}))
collapseAll(nds, newCollapsedState) ==
    [i \in 1..Len(nds) |->
        Spread(nds[i],
               [data |-> Obj(Spread(nds[i].data.obj,
                                    [collapsed |-> Bool(newCollapsedState)]))])]

toggleAllNodesCollapse(f) ==
    LET newCollapsedState == ~f.rendered.allCollapsed
        updatedNodes == collapseAll(actualNodes(f), newCollapsedState)
    IN Handled([f EXCEPT !.allCollapsed = newCollapsedState,
                         !.nodes = IF ~isControlled(f) THEN updatedNodes ELSE @],
               Arr(updatedNodes), Undefined, Undefined)

\* a drop on an initialised canvas (reactFlowInstance is set); a drop that
\* carries no type key is ignored
handleDrop(f, reg, type, position, now) ==
    LET newNode == droppedNode(reg, type, position, now, Len(actualNodes(f)))
    IN IF type = "" THEN Handled(f, Undefined, Undefined, Undefined)
       ELSE IF ~isControlled(f)
       THEN Handled([f EXCEPT !.nodes = Append(f.nodes, newNode)],
                    Arr(Append(f.nodes, newNode)), Undefined, Undefined)
       ELSE Handled(f, Arr(Append(actualNodes(f), newNode)), Undefined, Undefined)

\* the parent's callbacks: setNodes, setEdges, and addEdge of the connection
parentStores(h, nds, eds) ==
    [nodes |-> IF h.onNodesChange # Undefined THEN h.onNodesChange.arr ELSE nds,
     edges |-> IF h.onEdgesChange # Undefined THEN h.onEdgesChange.arr
               ELSE IF h.onConnect # Undefined
               THEN addEdgeUpdater(eds, onConnectEdge(h.onConnect))
               ELSE eds]

(***************************************************************************)
(* The canvas in use.  Events reach the handlers of the last render; the   *)
(* parent's next render is a step of its own, so that several events can   *)
(* be handled between two renders.                                         *)
(***************************************************************************)
MaxEvents == 3

CanvasNodes ==
    <<[id |-> Str("1"), type |-> Str("baseNode"), position |-> Pos(0, 0),
       data |-> Obj([label |-> Str("Start")])],
      [id |-> Str("2"), type |-> Str("baseNode"), position |-> Pos(0, 0),
       data |-> Obj([label |-> Str("End")])]>>

\* the last event: its arguments, the callbacks its handler called, whether
\* onNodesChange has been called since the last render, the events so far
FlowCall(op, arg, h, unsupplied, handled) ==
    [op |-> op, arg |-> arg, onNodesChange |-> h.onNodesChange,
     onEdgesChange |-> h.onEdgesChange, onConnect |-> h.onConnect,
     unsupplied |-> unsupplied, handled |-> handled]

\* no canvas is mounted
CanvasInit ==
    /\ flow = [mounted |-> FALSE]
    /\ flowCall = FlowCall("load", Undefined,
                           Handled(flow, Undefined, Undefined, Undefined), FALSE, 0)
    /\ baseNode = [mounted |-> FALSE]

\* baseNode is registered and a canvas is mounted on one of the node lists,
\* controlled (the parent supplies nodes and edges) or not (they are its
\* initialNodes and initialEdges)
CanvasMounted(lists) ==
    /\ nodeTypes = register(Registry(<<>>, <<>>, <<>>), "baseNode",
                            Component("BaseNode"), Undefined, Undefined,
                            Undefined).nodeTypes
    /\ nodeConfigs = register(Registry(<<>>, <<>>, <<>>), "baseNode",
                              Component("BaseNode"), Undefined, Undefined,
                              Undefined).nodeConfigs
    /\ registryCall = RegistryCall("register", "baseNode",
           <<Component("BaseNode"), Undefined, Undefined, Undefined>>, Undefined, <<>>)
    /\ nodes \in lists
    /\ edges = <<>>
    /\ sessionCall = [op |-> "useFlow", arg |-> Undefined, preNodes |-> nodes,
                      preEdges |-> edges, error |-> "none", notified |-> <<>>]
    /\ \E controlled \in BOOLEAN :
          flow = IF controlled
                 THEN mountFlow(<<>>, <<>>, Arr(nodes), Arr(edges), "edit",
                                CurrentRegistry)
                 ELSE mountFlow(nodes, edges, Undefined, Undefined, "edit",
                                CurrentRegistry)
    /\ flowCall = FlowCall("mount", Undefined,
                           Handled(flow, Undefined, Undefined, Undefined), FALSE, 0)

\* an event handled by the canvas and the parent's callbacks it calls
CanvasEvent(op, arg, h) ==
    /\ flowCall.handled < MaxEvents
    /\ flow' = h.flow
    /\ nodes' = parentStores(h, nodes, edges).nodes
    /\ edges' = parentStores(h, nodes, edges).edges
    /\ flowCall' = FlowCall(op, arg, h,
                            flowCall.unsupplied \/ h.onNodesChange # Undefined,
                            flowCall.handled + 1)

\* the parent renders the canvas again: in controlled mode with the nodes
\* and edges it holds
Render(mode) ==
    /\ flow.mounted
    /\ flow' = renderFlow(flow,
                          IF isControlled(flow) THEN Arr(nodes) ELSE Undefined,
                          IF isControlled(flow) THEN Arr(edges) ELSE Undefined,
                          mode, CurrentRegistry)
    /\ flowCall' = FlowCall("render", mode,
                            Handled(flow', Undefined, Undefined, Undefined), FALSE,
                            flowCall.handled)
    /\ UNCHANGED <<nodes, edges>>

\* the events: node changes (a selection, a move), edge changes (a removal,
\* a selection), a connection between two nodes, a node's onDataChange, the
\* layout and collapse buttons, a drop (the clock advances with the events)
CanvasNext ==
    \/ \E changes \in {<<[type |-> "select", id |-> Str("1"), selected |-> TRUE]>>,
                       <<[type |-> "position", id |-> Str("2"),
                          position |-> Pos(50, 50)]>>} :
          CanvasEvent("nodesChange", changes, handleNodesChange(flow, changes))
    \/ \E id \in EdgeIdsOf(actualEdges(flow)) :
          \E changes \in {<<[type |-> "remove", id |-> id]>>,
                          <<[type |-> "select", id |-> id, selected |-> TRUE]>>} :
             CanvasEvent("edgesChange", changes, handleEdgesChange(flow, changes))
    \/ \E s \in NodeIdsOf(actualNodes(flow)) :
          \E t \in NodeIdsOf(actualNodes(flow)) \ {s} :
             LET connection == [source |-> s, target |-> t, sourceHandle |-> Null,
                                targetHandle |-> Null]
             IN CanvasEvent("connect", connection, flowHandleConnect(flow, connection))
    \/ \E nodeId \in NodeIdsOf(actualNodes(flow)) :
          \E newData \in {[collapsed |-> Bool(TRUE)], [label |-> Str("Renamed")]} :
             CanvasEvent("nodeDataChange", [nodeId |-> nodeId, newData |-> newData],
                         handleNodeDataChange(flow, nodeId, newData))
    \/ CanvasEvent("autoLayout", Undefined, onAutoLayout(flow, footprints))
    \/ CanvasEvent("toggleAll", ~flow.rendered.allCollapsed,
                   toggleAllNodesCollapse(flow))
    \/ LET now == 1700000000 + flowCall.handled
       IN CanvasEvent("drop",
                      [type |-> "baseNode", position |-> Pos(0, 0), now |-> now],
                      handleDrop(flow, CurrentRegistry, "baseNode", Pos(0, 0), now))
    \/ Render(flow.mode)

(***************************************************************************)
(* The palette: types are registered and unregistered while a canvas is    *)
(* mounted and rendered again, in either mode.                             *)
(***************************************************************************)
MountCanvas(mode) ==
    /\ ~flow.mounted
    /\ flow' = mountFlow(<<>>, <<>>, Arr(nodes), Arr(edges), mode, CurrentRegistry)
    /\ flowCall' = FlowCall("mount", mode,
                            Handled(flow', Undefined, Undefined, Undefined), FALSE, 0)
    /\ UNCHANGED <<nodes, edges>>

PaletteNext ==
    \/ /\ \E t \in TypeKeys, c \in Components :
             Register(t, c, Undefined, Undefined, Undefined)
       /\ UNCHANGED <<edges, flow, flowCall>>
    \/ /\ \E t \in TypeKeys : Unregister(t)
       /\ UNCHANGED <<edges, flow, flowCall>>
    \/ /\ \E mode \in {"edit", "read"} : MountCanvas(mode)
       /\ UNCHANGED registryVars
    \/ /\ \E mode \in {"edit", "read"} : Render(mode)
       /\ UNCHANGED registryVars

\* the type keys NodeLibraryPanel offers for dragging
offeredTypes(reg) == {getAllConfigs(reg)[i].type.str : i \in 1..Len(getAllConfigs(reg))}

(***************************************************************************)
(* BaseNode: the component instance rendering one node of the canvas.      *)
(* `baseNode` holds its props (id, data), its state (collapsed,            *)
(* showSettings, settingsData) and the keys updateSettingsData has been    *)
(* given since it mounted.  A handler returns the node after it and its    *)
(* onDataChange call (undefined: not called).                              *)
(***************************************************************************)
\* constructor: collapsed is props.data.collapsed || false
constructBaseNode(props) ==
    [mounted |-> TRUE, props |-> props,
     collapsed |-> Truthy(Get(props.data, "collapsed")),
     showSettings |-> FALSE, settingsData |-> EmptyObject, edited |-> {}]

getInitialSettingsData(b) == b.props.data

componentDidMount(b) == [b EXCEPT !.settingsData = getInitialSettingsData(b)]

componentDidUpdate(b, prevProps) ==
    IF Get(prevProps.data, "collapsed") # Get(b.props.data, "collapsed")
    THEN [b EXCEPT !.collapsed = Truthy(Get(b.props.data, "collapsed"))]
    ELSE b

updateSettingsData(b, key, value) ==
    [node |-> [b EXCEPT !.settingsData = Spread(@, [k \in {key} |-> value])],
     call |-> Undefined]

handleToggleCollapse(b) ==
    [node |-> [b EXCEPT !.collapsed = ~b.collapsed],
     call |-> [nodeId |-> b.props.id,
               newData |-> Spread(b.props.data, [collapsed |-> Bool(~b.collapsed)])]]

handleToggleSettings(b) ==
    [node |-> [b EXCEPT !.showSettings = ~b.showSettings], call |-> Undefined]

\* onSettingsSave(settingsData), then handleCloseSettings
handleSaveSettings(b) ==
    [node |-> [b EXCEPT !.showSettings = FALSE],
     call |-> [nodeId |-> b.props.id, newData |-> b.settingsData]]

\* the data of the node of an id in a collection
DataOf(nds, nodeId) == nds[CHOOSE i \in 1..Len(nds) : nds[i].id = nodeId].data.obj

\* an event of the node, handled to its end: the node's handler, the
\* canvas's handleNodeDataChange for its onDataChange call, the parent's
\* callback, the render React makes before the next event and the node's
\* componentDidUpdate with the props of that render
SettingsEvent(op, arg, edited, nh) ==
    LET h == IF nh.call = Undefined
             THEN Handled(flow, Undefined, Undefined, Undefined)
             ELSE handleNodeDataChange(flow, nh.call.nodeId, nh.call.newData)
        stored == parentStores(h, nodes, edges).nodes
        rendered == renderFlow(h.flow,
                               IF isControlled(flow) THEN Arr(stored) ELSE Undefined,
                               IF isControlled(flow) THEN Arr(edges) ELSE Undefined,
                               flow.mode, CurrentRegistry)
        shown == [nh.node EXCEPT !.props.data = DataOf(actualNodes(rendered),
                                                       nh.node.props.id),
                                 !.edited = @ \cup edited]
    IN /\ flow' = rendered
       /\ nodes' = stored
       /\ baseNode' = componentDidUpdate(shown, nh.node.props)
       /\ flowCall' = FlowCall(op, arg, h, FALSE, flowCall.handled)
       /\ UNCHANGED edges

SettingsNext ==
    \/ \E key \in {"label", "note"}, value \in {Str("Renamed"), Str("Draft")} :
          SettingsEvent("updateSettingsData", [key |-> key, value |-> value], {key},
                        updateSettingsData(baseNode, key, value))
    \/ SettingsEvent("toggleCollapse", Undefined, {}, handleToggleCollapse(baseNode))
    \/ SettingsEvent("toggleSettings", Undefined, {}, handleToggleSettings(baseNode))
    \/ SettingsEvent("saveSettings", Undefined, {}, handleSaveSettings(baseNode))

(***************************************************************************)
(* Specifications: one per component, the others at rest.                  *)
(***************************************************************************)
Init == FlavorIdle /\ SessionInit /\ RegistryInit /\ LayoutInit /\ CanvasInit

\* the pipeline's caller holds any of the bounded arguments
InitFlavor == FlavorInit /\ SessionInit /\ RegistryInit /\ LayoutInit /\ CanvasInit

\* the canvas holds any of the bounded graphs
InitLayout == FlavorIdle /\ RegistryInit /\ LayoutAny /\ CanvasInit

\* a canvas is mounted on two nodes
InitCanvas ==
    /\ FlavorIdle /\ LayoutInit /\ CanvasMounted({CanvasNodes})
    /\ baseNode = [mounted |-> FALSE]

\* a canvas is mounted, its first node with or without a collapsed key in
\* its data, and a BaseNode rendering that node has mounted
InitSettings ==
    /\ FlavorIdle /\ LayoutInit
    /\ CanvasMounted({CanvasNodes,
                      mergeNodeData(CanvasNodes, Str("1"),
                                    [collapsed |-> Bool(FALSE)])})
    /\ baseNode = componentDidMount(
                      constructBaseNode([id |-> Str("1"),
                                         data |-> DataOf(nodes, Str("1"))]))

SpecFlavor ==
    InitFlavor
    /\ [][FlavorNext
          /\ UNCHANGED <<sessionVars, registryVars, layoutVars, canvasVars>>]_vars

SpecSession ==
    Init /\ [][SessionNext
               /\ UNCHANGED <<flavorVars, registryVars, layoutVars, canvasVars>>]_vars

SpecRegistry ==
    Init /\ [][RegistryNext
               /\ UNCHANGED <<flavorVars, edges, sessionCall, layoutVars,
                              canvasVars>>]_vars

SpecLayout ==
    InitLayout
    /\ [][LayoutNext /\ UNCHANGED <<flavorVars, registryVars, canvasVars>>]_vars

SpecCanvas ==
    InitCanvas
    /\ [][CanvasNext
          /\ UNCHANGED <<flavorVars, registryVars, sessionCall, layoutVars,
                         baseNode>>]_vars

SpecPalette ==
    Init /\ [][PaletteNext
               /\ UNCHANGED <<flavorVars, sessionCall, layoutVars, baseNode>>]_vars

SpecSettings ==
    InitSettings
    /\ [][SettingsNext
          /\ UNCHANGED <<flavorVars, registryVars, sessionCall, layoutVars>>]_vars

(***************************************************************************)
(* Claims                                                                  *)
(***************************************************************************)
IsNode(n) ==
    /\ {"id", "type", "position", "data"} \subseteq DOMAIN n
    /\ DOMAIN n.position = {"x", "y"}
    /\ DOMAIN n.data = {"obj"}
IsEdge(e) == {"id", "source", "target"} \subseteq DOMAIN e

SameNode(a, b) ==
    /\ Get(a, "id") = Get(b, "id")
    /\ Get(a, "type") = Get(b, "type")
    /\ Get(a, "position") = Get(b, "position")
    /\ DOMAIN Get(b, "data") = {"obj"}
    /\ \A k \in DOMAIN a.data.obj :
          k \in DOMAIN b.data.obj /\ b.data.obj[k] = a.data.obj[k]
SameEdge(a, b) ==
    /\ Get(a, "id") = Get(b, "id")
    /\ Get(a, "source") = Get(b, "source")
    /\ Get(a, "target") = Get(b, "target")

RoundTripped == flavorCall.op \in {"importExported", "clone"}

\* C1: import(export(N, E)) and clone(N, E) return as many nodes and edges as
\* were given, in the same order, every node with its id, type, position and
\* every key and value of data, every edge with its id, source and target.
C1_RoundTrip ==
    (/\ RoundTripped
     /\ \A i \in 1..Len(flavorIn.nodes) : IsNode(flavorIn.nodes[i])
     /\ \A i \in 1..Len(flavorIn.edges) : IsEdge(flavorIn.edges[i]))
    => /\ flavorCall.result.error = "none"
       /\ Len(flavorCall.result.nodes) = Len(flavorIn.nodes)
       /\ Len(flavorCall.result.edges) = Len(flavorIn.edges)
       /\ \A i \in 1..Len(flavorIn.nodes) :
             SameNode(flavorIn.nodes[i], flavorCall.result.nodes[i])
       /\ \A i \in 1..Len(flavorIn.edges) :
             SameEdge(flavorIn.edges[i], flavorCall.result.edges[i])

\* an exported envelope is imported back: two nodes that have the four
\* fields, one of them with a custom data key, and an edge
C1_Witness ==
    /\ flavorCall.op = "importExported"
    /\ Len(flavorIn.nodes) = 2
    /\ Len(flavorIn.edges) = 1
    /\ \A i \in 1..2 : IsNode(flavorIn.nodes[i])
    /\ \E i \in 1..2 : "format" \in DOMAIN flavorIn.nodes[i].data.obj
    /\ flavorIn.nodes[1] # flavorIn.nodes[2]

\* C2: in every reachable state every edge of the edge collection has a
\* source and a target that are ids of nodes of the node collection.
C2_NoDanglingEdge ==
    \A i \in 1..Len(edges) : ~Dangling(edges[i], nodes)

\* C3: addEdge with a candidate whose source or target is no node's id fails
\* with a dangling-endpoint error and leaves the edge collection as it was.
C3_DanglingRejected ==
    (sessionCall.op = "addEdge" /\ Dangling(sessionCall.arg, sessionCall.preNodes))
    => /\ sessionCall.error = "DanglingEndpointError"
       /\ edges = sessionCall.preEdges

\* the sequence s without the elements at the positions in drop
RECURSIVE Without(_, _, _)
Without(s, drop, i) ==
    IF i > Len(s) THEN <<>>
    ELSE (IF i \in drop THEN <<>> ELSE <<s[i]>>) \o Without(s, drop, i + 1)

C5_AtomicCalls ==
    \A i \in 1..Len(sessionCall.notified) :
        LET seen == sessionCall.notified[i]
        IN \/ seen.nodes = sessionCall.preNodes /\ seen.edges = sessionCall.preEdges
           \/ seen.nodes = nodes /\ seen.edges = edges

\* C6: register on a key that is already registered raises no error and
\* emits exactly one warning, register on a new key emits none, and after
\* either getComponent and getConfig return what this call was given.
C6_RegisterOverwrites ==
    [][registryCall'.op = "register"
       => LET key == registryCall'.type
              given == registryCall'.args
          IN /\ registryCall'.error = "none"
             /\ Len(registryCall'.warnings)
                  = (IF isRegistered(CurrentRegistry, key) THEN 1 ELSE 0)
             /\ getComponent(CurrentRegistry', key) = given[1]
             /\ getConfig(CurrentRegistry', key).component = given[1]
             /\ getConfig(CurrentRegistry', key).defaultData = given[2]
             /\ getConfig(CurrentRegistry', key).type = Str(key)]_vars

\* a key is registered again with another component and other default data
C6_Witness ==
    /\ registryCall.op = "register"
    /\ Len(registryCall.warnings) = 1
    /\ Len(nodeTypes) = 2
    /\ nodeTypes[1].key = registryCall.type
    /\ registryCall.args[1] = Component("OutputNode")
    /\ registryCall.args[2] # Undefined

\* C7: unregister(key) returns true exactly when key was registered; after it
\* key is not registered and its component and config are absent, and stay
\* so until key is registered again; all other registrations and the nodes
\* of the graph are unchanged.
C7_Unregister ==
    [][/\ registryCall'.op = "unregister"
          => LET key == registryCall'.type
             IN /\ registryCall'.result = Bool(isRegistered(CurrentRegistry, key))
                /\ ~isRegistered(CurrentRegistry', key)
                /\ getComponent(CurrentRegistry', key) = Undefined
                /\ getConfig(CurrentRegistry', key) = Undefined
                /\ \A k \in TypeKeys \ {key} :
                      /\ getComponent(CurrentRegistry', k) = getComponent(CurrentRegistry, k)
                      /\ getConfig(CurrentRegistry', k) = getConfig(CurrentRegistry, k)
                /\ nodes' = nodes
       /\ \A k \in TypeKeys :
            (/\ ~isRegistered(CurrentRegistry, k)
             /\ getComponent(CurrentRegistry, k) = Undefined
             /\ getConfig(CurrentRegistry, k) = Undefined
             /\ ~(registryCall'.op = "register" /\ registryCall'.type = k)
             /\ ~(registryCall'.op = "registerBatch"
                  /\ \E i \in 1..Len(registryCall'.args) :
                        registryCall'.args[i].type = Str(k)))
            => /\ ~isRegistered(CurrentRegistry', k)
               /\ getComponent(CurrentRegistry', k) = Undefined
               /\ getConfig(CurrentRegistry', k) = Undefined]_vars

\* a registered key is unregistered while the graph holds a node of that
\* type and another key stays registered
C7_Witness ==
    /\ registryCall.op = "unregister"
    /\ registryCall.result = Bool(TRUE)
    /\ Len(nodeTypes) = 1
    /\ \E i \in 1..Len(nodes) : nodes[i].type = Str(registryCall.type)

\* the rectangle of a laid-out node: its top-left position and its effective
\* width and height (footprint plus 20, or the estimate)
Box(node) ==
    LET d == nodeDimensions(node, getNodeDimensions(footprints, node.id))
    IN [left |-> node.position.x, right |-> node.position.x + d.width,
        top |-> node.position.y, bottom |-> node.position.y + d.height]
Apart(a, b) ==
    \/ a.right <= b.left
    \/ b.right <= a.left
    \/ a.bottom <= b.top
    \/ b.bottom <= a.top

\* C8: after auto layout, in either direction, the rectangles of any two
\* distinct nodes do not intersect.
C8_NoOverlap ==
    layoutCall.op = "layout"
    => \A i \in 1..Len(nodes) : \A j \in 1..Len(nodes) :
          i < j => Apart(Box(nodes[i]), Box(nodes[j]))

\* three rendered nodes laid out left to right, two of them in one layer
C8_Witness ==
    /\ layoutCall.op = "layout"
    /\ layoutCall.direction = "LR"
    /\ Len(nodes) = 3
    /\ footprints # EmptyObject
    /\ \E i \in 1..3 : \E j \in 1..3 :
          /\ i # j
          /\ nodes[i].position.y # nodes[j].position.y
          /\ Box(nodes[i]).left < Box(nodes[j]).right
          /\ Box(nodes[j]).left < Box(nodes[i]).right
    /\ \E i \in 1..3 : \E j \in 1..3 :
          Box(nodes[i]).right < Box(nodes[j]).left

NodeWithId(nds, id) == nds[CHOOSE i \in 1..Len(nds) : nds[i].id = id]
EdgePairs(eds) == {<<eds[i].source.str, eds[i].target.str>> : i \in 1..Len(eds)}
Acyclic(eds) ==
    \A e \in EdgePairs(eds) : ~Reaches(EdgePairs(eds), e[2], e[1], Len(eds))

\* C9: for every edge u -> v of an acyclic graph, after a left-to-right
\* layout x of v exceeds x of u by at least 150 - 20, and after a
\* top-to-bottom layout y of v exceeds y of u by as much.
C9_LayerSpacing ==
    (layoutCall.op = "layout" /\ Acyclic(edges))
    => \A k \in 1..Len(edges) :
          LET u == NodeWithId(nodes, edges[k].source)
              v == NodeWithId(nodes, edges[k].target)
          IN IF layoutCall.direction = "LR"
             THEN v.position.x - u.position.x >= 150 - 20
             ELSE v.position.y - u.position.y >= 150 - 20

\* nodes "1" and "2" with the single edge 1 -> 2, laid out left to right
C9_Witness ==
    /\ layoutCall.op = "layout"
    /\ layoutCall.direction = "LR"
    /\ NodeIdsOf(nodes) = {Str("1"), Str("2")}
    /\ EdgePairs(edges) = {<<"1", "2">>}
    /\ NodeWithId(nodes, Str("2")).position.x
         >= NodeWithId(nodes, Str("1")).position.x + 130

Positions(nds) == [i \in 1..Len(nds) |-> nds[i].position]
AtOrigin(nds) == [i \in 1..Len(nds) |-> Spread(nds[i], [position |-> Pos(0, 0)])]

\* C10: a layout applied to the nodes a layout returned, with the same edges,
\* footprints, data and direction, leaves every position as it is; the
\* positions returned do not depend on the positions given.
C10_Idempotent ==
    layoutCall.op = "layout"
    => /\ layoutCall.again => Positions(nodes) = Positions(layoutCall.preNodes)
       /\ Positions(nodes)
            = Positions(getLayoutedElements(AtOrigin(layoutCall.preNodes), edges,
                                            layoutCall.direction, footprints).nodes)

\* a second layout in the same direction of three rendered nodes with edges
C10_Witness ==
    /\ layoutCall.op = "layout"
    /\ layoutCall.again
    /\ Len(nodes) = 3
    /\ Len(edges) = 2
    /\ footprints # EmptyObject
    /\ \E i \in 1..3 : nodes[i].position # Pos(0, 0) /\ nodes[i].position # Pos(400, 100)

\* C11: a layout returns one node per node given, in the same order, each
\* with every field but position as it was given (same keys, same values),
\* returns the edge list as given, and leaves the edge list it was given as
\* it was.
C11_LayoutFrame ==
    layoutCall.op = "layout"
    => /\ Len(nodes) = Len(layoutCall.preNodes)
       /\ \A i \in 1..Len(layoutCall.preNodes) :
             /\ i <= Len(nodes)
             /\ DOMAIN nodes[i] = DOMAIN layoutCall.preNodes[i] \cup {"position"}
             /\ \A k \in DOMAIN layoutCall.preNodes[i] \ {"position"} :
                   k \in DOMAIN nodes[i] /\ nodes[i][k] = layoutCall.preNodes[i][k]
       /\ layoutCall.edges = edges
       /\ edges = sessionCall.preEdges

\* three nodes with two edges laid out, the second one collapsed and selected
\* and moved by the layout
C11_Witness ==
    /\ layoutCall.op = "layout"
    /\ Len(nodes) = 3
    /\ Len(edges) = 2
    /\ Get(nodes[2], "selected") = Bool(TRUE)
    /\ Get(nodes[2], "type") = Str("dataProcess")
    /\ nodes[2].position # layoutCall.preNodes[2].position

\* C12: a layout of any graph (with cycles, self-loops, unconnected nodes,
\* parallel edges, or no node at all) raises no error and returns an integer
\* position for every node; the empty graph yields the empty node list.
C12_LayoutTotal ==
    layoutCall.op = "layout"
    => /\ layoutCall.error = "none"
       /\ Len(nodes) = Len(layoutCall.preNodes)
       /\ \A i \in 1..Len(nodes) :
             /\ "position" \in DOMAIN nodes[i]
             /\ nodes[i].position.x \in Int
             /\ nodes[i].position.y \in Int
       /\ layoutCall.preNodes = <<>> => nodes = <<>>

\* the cycle 1 -> 2 -> 1 beside the unconnected node 3, laid out
C12_Witness ==
    /\ layoutCall.op = "layout"
    /\ layoutCall.error = "none"
    /\ Len(nodes) = 3
    /\ EdgePairs(edges) = {<<"1", "2">>, <<"2", "1">>}
    /\ \A i \in 1..3 : nodes[i].position.x >= 20 /\ nodes[i].position.y >= 20

\* C13: a drop of a type key that is not registered fails with an error and
\* leaves the node collection as it was; a drop never changes the registry.
C13_UnknownTypeRejected ==
    [][registryCall'.op = "handleDrop"
       => /\ nodeTypes' = nodeTypes
          /\ nodeConfigs' = nodeConfigs
          /\ ~isRegistered(CurrentRegistry, registryCall'.type)
                => /\ registryCall'.error # "none"
                   /\ nodes' = nodes]_vars

NodeStandardSet ==
    {"id", "type", "position", "data", "width", "height", "selected", "dragging"}
EdgeStandardSet ==
    {"id", "source", "target", "sourceHandle", "targetHandle", "type", "animated",
     "style", "data"}

\* C14: the envelope export returns holds, for every node given, every
\* top-level field of the node that is outside the node standard set, with
\* the value given; after export followed by import (and after clone) the
\* node returned still holds that field with that value.
C14_NodeCustomFieldsSurvive ==
    /\ flavorCall.op = "export"
         => \A i \in 1..Len(flavorIn.nodes) :
               \A k \in DOMAIN flavorIn.nodes[i] \ NodeStandardSet :
                  /\ k \in DOMAIN flavorCall.data.nodes.arr[i]
                  /\ flavorCall.data.nodes.arr[i][k] = flavorIn.nodes[i][k]
    /\ RoundTripped
         => \A i \in 1..Len(flavorIn.nodes) :
               \A k \in DOMAIN flavorIn.nodes[i] \ NodeStandardSet :
                  /\ k \in DOMAIN flavorCall.result.nodes[i]
                  /\ flavorCall.result.nodes[i][k] = flavorIn.nodes[i][k]

\* C15: the envelope export returns holds, for every edge given, every
\* top-level field of the edge that is outside the edge standard set, with
\* the value given.
C15_EdgeCustomFieldsEmitted ==
    flavorCall.op = "export"
    => \A i \in 1..Len(flavorIn.edges) :
          \A k \in DOMAIN flavorIn.edges[i] \ EdgeStandardSet :
             /\ k \in DOMAIN flavorCall.data.edges.arr[i]
             /\ flavorCall.data.edges.arr[i][k] = flavorIn.edges[i][k]

ImportCalled == flavorCall.op \in {"import", "importExported"}
NotAnArray(v) == DOMAIN v # {"arr"}

\* C16: an import of an envelope whose nodes, or whose edges, is missing or
\* no array fails with the format error of a field that is missing or no
\* array, returns no node and no edge and enters no stage after validation;
\* a format error comes from validation alone, and only for such an envelope.
C16_FormatError ==
    ImportCalled
    => LET data == flavorCall.data
           result == flavorCall.result
           nodesInvalid == NotAnArray(Get(data, "nodes"))
           edgesInvalid == NotAnArray(Get(data, "edges"))
       IN /\ (nodesInvalid \/ edgesInvalid)
               => /\ result.error \in {NodesError, EdgesError}
                  /\ result.nodes = <<>>
                  /\ result.edges = <<>>
          /\ result.error = NodesError => nodesInvalid
          /\ result.error = EdgesError => edgesInvalid
          /\ result.error \in {NodesError, EdgesError}
               => result.ran = <<"validateData">>

\* an envelope whose nodes is text and whose edges is an array is refused
\* for its nodes
C16_Witness ==
    /\ flavorCall.op = "import"
    /\ flavorCall.data.nodes = Str("oops")
    /\ IsArray(flavorCall.data.edges)
    /\ flavorCall.result.error = NodesError
    /\ flavorCall.result.ran = <<"validateData">>

IsParseFailure(error) ==
    \E cause \in {SyntaxErrorCause, PositionOfNullError,
                   "Error: " \o NodesError, "Error: " \o EdgesError} :
       error = ParseFailure(cause)

\* C17: importFromJSON of text that is no JSON fails with a parse failure;
\* importFromJSON of the JSON text of an envelope whose nodes or edges is no
\* array fails too, with an error that is not a parse failure.
C17_ParseErrorDistinct ==
    flavorCall.op = "importFromJSON"
    => LET text == flavorCall.data
           result == flavorCall.result
       IN /\ text = MalformedText => IsParseFailure(result.error)
          /\ (/\ DOMAIN text = {"json"}
              /\ \/ NotAnArray(Get(text.json, "nodes"))
                 \/ NotAnArray(Get(text.json, "edges")))
               => /\ result.error # "none"
                  /\ ~IsParseFailure(result.error)

EnvelopeVersion(data) ==
    IF DOMAIN Get(data, "metadata") = {"obj"}
    THEN Get(data.metadata.obj, "version") ELSE Undefined

\* C18: an import of an envelope with arrays for nodes and edges and a
\* version in its metadata does not fail in validation; when that version
\* is not the version configured the call writes one warning and returns the
\* nodes and edges an import under the envelope's own version returns; when
\* the two versions are equal it writes no warning.
C18_VersionMismatchWarns ==
    [][(version' = version /\ flavorCall'.op \in {"import", "importExported"})
       => LET data == flavorCall'.data
              result == flavorCall'.result
              v == EnvelopeVersion(data)
          IN (/\ ~NotAnArray(Get(data, "nodes"))
              /\ ~NotAnArray(Get(data, "edges"))
              /\ DOMAIN v = {"str"})
             => /\ result.error = "none"
                /\ v # Str(version)
                     => /\ Len(result.warnings) = 1
                        /\ result.nodes = import(v.str, data).nodes
                        /\ result.edges = import(v.str, data).edges
                        /\ import(v.str, data).warnings = <<>>
                /\ v = Str(version) => result.warnings = <<>>]_vars

\* an envelope of version 2.0.0 with a node is imported under version 1.0.0
C18_Witness ==
    /\ flavorCall.op = "import"
    /\ EnvelopeVersion(flavorCall.data) = Str("2.0.0")
    /\ version = "1.0.0"
    /\ flavorCall.result.warnings = <<"Version mismatch">>
    /\ flavorCall.result.error = "none"
    /\ Len(flavorCall.result.nodes) = 1

\* C19: when an import fails in the node deserialization stage, the edge
\* deserialization stage has run as well.
C19_DecoupledPasses ==
    (/\ ImportCalled
     /\ flavorCall.result.error # "none"
     /\ flavorCall.result.ran[Len(flavorCall.result.ran)] = "deserializeNodes")
    => \E i \in 1..Len(flavorCall.result.ran) :
          flavorCall.result.ran[i] = "deserializeEdges"

\* C20: in the metadata of an exported envelope every key of the metadata
\* given has the value given (version and timestamp included); when version
\* is not given it is the version configured, when timestamp is not given it
\* is the time of the call; there is no other key.
C20_ExportMetadata ==
    [][(version' = version /\ flavorCall'.op = "export")
       => LET given == IF flavorIn.metadata = Undefined THEN EmptyObject
                       ELSE flavorIn.metadata.obj
              metadata == flavorCall'.data.metadata.obj
          IN /\ DOMAIN metadata = DOMAIN given \cup {"version", "timestamp"}
             /\ \A k \in DOMAIN given : metadata[k] = given[k]
             /\ "version" \notin DOMAIN given => metadata.version = Str(version)
             /\ "timestamp" \notin DOMAIN given
                  => metadata.timestamp = Str(flavorIn.now)]_vars

\* an export after setVersion("2.0.0") with the author given
C20_Witness ==
    /\ flavorCall.op = "export"
    /\ version = "2.0.0"
    /\ flavorIn.metadata = Obj([author |-> Str("Demo User")])
    /\ flavorCall.data.metadata.obj.version = Str("2.0.0")
    /\ flavorCall.data.metadata.obj.author = Str("Demo User")
    /\ flavorCall.data.metadata.obj.timestamp = Str(flavorIn.now)

\* C21: the metadata of every exported envelope has a version that is a
\* string and a timestamp that is a string, whatever metadata was given.
C21_MetadataStrings ==
    flavorCall.op = "export"
    => /\ DOMAIN Get(flavorCall.data.metadata.obj, "version") = {"str"}
       /\ DOMAIN Get(flavorCall.data.metadata.obj, "timestamp") = {"str"}

Absent(v) == v = Undefined

\* C22: an import that succeeds returns one node per raw node, in order:
\* position is {x: 0, y: 0} when the raw node has none and the raw position
\* otherwise, data is {} when the raw node has none and the raw data
\* otherwise, every other field of the raw node is there with its value and
\* no field is added; the edges returned are the raw edges, field by field.
C22_DeserializeDefaults ==
    (ImportCalled /\ flavorCall.result.error = "none")
    => LET raw == flavorCall.data.nodes.arr
           out == flavorCall.result.nodes
       IN /\ Len(out) = Len(raw)
          /\ \A i \in 1..Len(raw) :
                /\ i <= Len(out)
                /\ DOMAIN out[i] = DOMAIN raw[i] \cup {"position", "data"}
                /\ out[i].position = IF Absent(Get(raw[i], "position"))
                                      THEN Pos(0, 0) ELSE raw[i].position
                /\ out[i].data = IF Absent(Get(raw[i], "data"))
                                  THEN Obj(EmptyObject) ELSE raw[i].data
                /\ \A k \in DOMAIN raw[i] \ {"position", "data"} :
                      out[i][k] = raw[i][k]
          /\ flavorCall.result.edges = flavorCall.data.edges.arr

\* an exported envelope is imported: a node with a backend field and a width
\* keeps them, a node without position and data gets the defaults, and the
\* edge is returned as it is
C22_Witness ==
    /\ flavorCall.op = "importExported"
    /\ flavorCall.result.error = "none"
    /\ Len(flavorCall.result.nodes) = 2
    /\ Get(flavorCall.result.nodes[1], "backendId") = Str("b7")
    /\ Get(flavorCall.result.nodes[1], "width") = Num(180)
    /\ Get(flavorCall.data.nodes.arr[2], "position") = Undefined
    /\ flavorCall.result.nodes[2].position = Pos(0, 0)
    /\ flavorCall.result.nodes[2].data = Obj(EmptyObject)
    /\ Len(flavorCall.result.edges) = 1

\* register(type, component, defaultData) called for configs[i], configs[i+1], ...
RECURSIVE RegisterEach(_, _, _)
RegisterEach(reg, configs, i) ==
    IF i > Len(configs) THEN reg
    ELSE RegisterEach(register(reg, configs[i].type.str, configs[i].component,
                               Get(configs[i], "defaultData"), Undefined, Undefined),
                      configs, i + 1)

\* C23: registerBatch(configs) leaves both maps, and the warnings written,
\* as one register(type, component, defaultData) call per entry in list
\* order leaves them: the last entry of each key is the one in effect, and
\* there is one warning per entry whose key was registered before the call
\* or listed earlier in the batch.
C23_BatchIsSequential ==
    [][registryCall'.op = "registerBatch"
       => LET configs == registryCall'.args
              each == RegisterEach(CurrentRegistry, configs, 1)
          IN /\ registryCall'.error = "none"
             /\ nodeTypes' = each.nodeTypes
             /\ nodeConfigs' = each.nodeConfigs
             /\ registryCall'.warnings = each.warnings
             /\ Len(registryCall'.warnings)
                  = Cardinality({i \in 1..Len(configs) :
                       \/ isRegistered(CurrentRegistry, configs[i].type.str)
                       \/ \E j \in 1..(i - 1) : configs[j].type = configs[i].type})
             /\ \A i \in 1..Len(configs) :
                   (\A j \in (i + 1)..Len(configs) : configs[j].type # configs[i].type)
                   => /\ getComponent(CurrentRegistry', configs[i].type.str)
                          = configs[i].component
                      /\ getConfig(CurrentRegistry', configs[i].type.str).defaultData
                          = Get(configs[i], "defaultData")]_vars

\* a batch lists a registered key twice, with two components
C23_Witness ==
    /\ registryCall.op = "registerBatch"
    /\ Len(registryCall.args) = 2
    /\ registryCall.args[1].type = registryCall.args[2].type
    /\ registryCall.args[1].component # registryCall.args[2].component
    /\ Len(registryCall.warnings) = 2
    /\ Len(nodeTypes) = 2

ConfigKeys(configs) == [i \in 1..Len(configs) |-> configs[i].type.str]
MadeLast(keys, k) == SelectSeq(keys, LAMBDA x : x # k) \o <<k>>
RECURSIVE MadeLastEach(_, _, _)
MadeLastEach(keys, configs, i) ==
    IF i > Len(configs) THEN keys
    ELSE MadeLastEach(MadeLast(keys, configs[i].type.str), configs, i + 1)

\* C24: getAllConfigs lists one config per registered key, in the order in
\* which the registrations in effect were made: a register call puts its
\* key last (a batch does so entry by entry), unregister takes its key out
\* and keeps the rest in order, clear leaves the empty list.
C24_RegistrationOrder ==
    [][LET before == ConfigKeys(getAllConfigs(CurrentRegistry))
           after == ConfigKeys(getAllConfigs(CurrentRegistry'))
       IN /\ Len(after) = Cardinality(MapKeys(nodeTypes'))
          /\ {after[i] : i \in 1..Len(after)} = MapKeys(nodeTypes')
          /\ registryCall'.op = "register"
               => after = MadeLast(before, registryCall'.type)
          /\ registryCall'.op = "registerBatch"
               => after = MadeLastEach(before, registryCall'.args, 1)
          /\ registryCall'.op = "unregister"
               => after = SelectSeq(before, LAMBDA x : x # registryCall'.type)
          /\ registryCall'.op = "clear" => after = <<>>]_vars

\* C26: the component map and the config map have the same keys; the config
\* stored for a key has that key as its type and the component the
\* component map holds for it; a key is registered exactly when it has a
\* config and exactly when getNodeTypes() has it.
C26_MapsAgree ==
    /\ MapKeys(nodeTypes) = MapKeys(nodeConfigs)
    /\ Len(nodeTypes) = Cardinality(MapKeys(nodeTypes))
    /\ Len(nodeConfigs) = Cardinality(MapKeys(nodeConfigs))
    /\ \A k \in MapKeys(nodeTypes) \cup MapKeys(nodeConfigs) :
          /\ getConfig(CurrentRegistry, k) # Undefined
          /\ getConfig(CurrentRegistry, k).type = Str(k)
          /\ getConfig(CurrentRegistry, k).component = getComponent(CurrentRegistry, k)
    /\ \A k \in TypeKeys \cup {"unknown"} :
          /\ isRegistered(CurrentRegistry, k) <=> getConfig(CurrentRegistry, k) # Undefined
          /\ isRegistered(CurrentRegistry, k) <=> k \in DOMAIN getNodeTypes(CurrentRegistry)

\* the registry is cleared and a batch then registers two keys
C26_Witness ==
    /\ registryCall.op = "registerBatch"
    /\ Len(registryCall.warnings) = 0
    /\ MapKeys(nodeTypes) = TypeKeys
    /\ nodeTypes[1].key = "output"

\* C25: an addEdge call given a connection without an id, on a collection
\* whose edge ids are pairwise distinct, appends the edge of that connection
\* (also when an edge between the same source and target is there already)
\* and leaves the edge ids pairwise distinct.
C25_EdgeIdsUnique ==
    [][(/\ sessionCall'.op = "addEdge"
        /\ ~HasKey(sessionCall'.arg, "id")
        /\ Cardinality(EdgeIdsOf(edges)) = Len(edges))
       => /\ Len(edges') = Len(edges) + 1
          /\ edges'[Len(edges')].source = sessionCall'.arg.source
          /\ edges'[Len(edges')].target = sessionCall'.arg.target
          /\ edges'[Len(edges')].sourceHandle = sessionCall'.arg.sourceHandle
          /\ Cardinality(EdgeIdsOf(edges')) = Len(edges')]_vars

\* the node list an event makes of a node list
NodeEffect(op, arg, nds, eds, dom, reg) ==
    CASE op = "nodesChange" -> applyNodeChanges(arg, nds)
      [] op = "nodeDataChange" -> mergeNodeData(nds, arg.nodeId, arg.newData)
      [] op = "drop" -> Append(nds, droppedNode(reg, arg.type, arg.position, arg.now,
                                                Len(nds)))
      [] op = "toggleAll" -> collapseAll(nds, arg)
      [] op = "autoLayout" -> getLayoutedElements(nds, eds, "LR", dom).nodes

\* C27: in controlled mode, when a node-changing event is handled after an
\* earlier one has called onNodesChange and before the parent has rendered the
\* canvas with that list, the list the event passes to onNodesChange is the
\* event's effect on the list the earlier call carried: no update is lost.
C27_NoLostUpdate ==
    [][(/\ isControlled(flow)
        /\ flowCall.unsupplied
        /\ flowCall'.handled = flowCall.handled + 1
        /\ flowCall'.onNodesChange # Undefined)
       => flowCall'.onNodesChange =
             Arr(NodeEffect(flowCall'.op, flowCall'.arg, nodes, actualEdges(flow),
                            footprints, CurrentRegistry))]_vars

\* C28: in uncontrolled mode, a step that changes the canvas's internal node
\* collection calls onNodesChange with the new node collection, and a step that
\* changes its internal edge collection calls onEdgesChange with the new edge
\* collection.
C28_ChangesReported ==
    [][(flow.mounted /\ ~isControlled(flow))
       => /\ flow'.nodes # flow.nodes => flowCall'.onNodesChange = Arr(flow'.nodes)
          /\ flow'.edges # flow.edges => flowCall'.onEdgesChange = Arr(flow'.edges)]_vars

\* C29: while a canvas is mounted, every type key the node library panel
\* offers (every key of the registry) has an entry in the canvas's nodeTypes
\* memo, and that entry renders the component registered under the key.
C29_OfferedTypesRender ==
    flow.mounted
    => \A type \in offeredTypes(CurrentRegistry) :
          /\ type \in DOMAIN flow.nodeTypes
          /\ flow.nodeTypes[type].component = getComponent(CurrentRegistry, type)

\* C30: saving the settings panel of a node leaves every key of the node's
\* data that updateSettingsData has not been given since the node mounted at
\* the value it had in the node collection just before the save.
C30_SaveChangesEditedKeysOnly ==
    [][flowCall'.op = "saveSettings"
       => \A key \in DOMAIN DataOf(nodes, baseNode.props.id)
                     \cup DOMAIN DataOf(nodes', baseNode.props.id) :
             key \notin baseNode.edited
             => Get(DataOf(nodes', baseNode.props.id), key)
                = Get(DataOf(nodes, baseNode.props.id), key)]_vars

====
